---------------------------- MODULE Spec2Model ----------------------------
(***************************************************************************)
(* A model of the go-collide package: the GJK distance algorithm, the      *)
(* collision dispatcher and the time-of-impact engine.                     *)
(*                                                                         *)
(* Numbers.  The Go code computes in float64.  The model computes in exact *)
(* rational arithmetic: a number is a pair <<n, d>> in lowest terms with   *)
(* d > 0; <<1, 0>> and <<-1, 0>> stand for +Inf and -Inf (and for          *)
(* math.MaxFloat64 and its negative, which the code only compares with),   *)
(* <<0, 0>> for NaN.  A square root is taken exactly when the radicand is  *)
(* the square of a rational; where the code only compares a length with a  *)
(* constant, the model compares the squares.  A run that would need an     *)
(* irrational square root leaves the model (pc = "irrational").            *)
(*                                                                         *)
(* Rotations.  An angle is a whole number of quarter turns, so that the    *)
(* sine and cosine are exactly 0, 1 or -1.                                 *)
(*                                                                         *)
(* Local variables of the Go functions are parameters of the operators     *)
(* that model the statements after their assignment.                       *)
(***************************************************************************)
EXTENDS Integers, Sequences, FiniteSets, TLC

(***************************************************************************)
(* Bounds of the model.                                                    *)
(***************************************************************************)
\* Positions are drawn from the half-unit grid -MaxOff/2 .. MaxOff/2.
MaxOff == 3
\* A sweep of b starts at most MaxStart half units to the right of a.
MaxStart == 6

(***************************************************************************)
(* Rational arithmetic (the float64 operators of the Go code).             *)
(***************************************************************************)
Abs(n) == IF n < 0 THEN -n ELSE n

RECURSIVE GCD(_, _)
GCD(a, b) == IF b = 0 THEN a ELSE GCD(b, a % b)

\* n/d in lowest terms, once g = gcd(|n|, |d|) is known.
Lowest(n, d, g) ==
    IF d < 0 THEN <<(-n) \div g, (-d) \div g>> ELSE <<n \div g, d \div g>>

\* The rational n/d (not both 0).
R(n, d) == Lowest(n, d, GCD(Abs(n), Abs(d)))

Zero == <<0, 1>>
One  == <<1, 1>>
Half == <<1, 2>>
\* The result of 0/0.
NaN  == <<0, 0>>

RNeg(a) == <<-a[1], a[2]>>
\* a + b over the least common denominator; g is the gcd of the denominators.
RAddOver(a, b, g) ==
    R(a[1] * (b[2] \div g) + b[1] * (a[2] \div g), (a[2] \div g) * b[2])
RAdd(a, b) == RAddOver(a, b, GCD(a[2], b[2]))
RSub(a, b) == RAdd(a, RNeg(b))
\* a * b, reduced before the products are taken.
RMulOver(a, b, g1, g2) ==
    <<(a[1] \div g1) * (b[1] \div g2), (a[2] \div g2) * (b[2] \div g1)>>
RMul(a, b) == RMulOver(a, b, GCD(Abs(a[1]), b[2]), GCD(Abs(b[1]), a[2]))
\* a / b; x/0 is NaN for x = 0 and an infinity otherwise.
RDiv(a, b) ==
    IF b[1] = 0 THEN (IF a[1] = 0 THEN NaN ELSE <<IF a[1] > 0 THEN 1 ELSE -1, 0>>)
    ELSE RMul(a, IF b[1] > 0 THEN <<b[2], b[1]>> ELSE <<-b[2], -b[1]>>)

RLt(a, b) == a[1] * b[2] < b[1] * a[2]
RLe(a, b) == a[1] * b[2] <= b[1] * a[2]
RGt(a, b) == b[1] * a[2] < a[1] * b[2]
RGe(a, b) == b[1] * a[2] <= a[1] * b[2]
RAbs(a) == <<Abs(a[1]), a[2]>>

\* Whether n/d < p/q (d > 0, q > 0), computed without products: for the
\* comparisons whose operands are squares.
RECURSIVE Below(_, _, _, _)
Below(n, d, p, q) ==
    IF n \div d # p \div q THEN n \div d < p \div q
    ELSE IF p % q = 0 THEN FALSE
    ELSE IF n % d = 0 THEN TRUE
    ELSE Below(q, p % q, d, n % d)

\* Whether the length whose square is a is less than the length l >= 0.
LengthLt(a, l) == Below(a[1], a[2], RMul(l, l)[1], RMul(l, l)[2])
\* math.Max
RMax(a, b) == IF RLt(a, b) THEN b ELSE a

\* The greatest r in lo..hi with r * r <= n, by bisection.
RECURSIVE SqrtSearch(_, _, _)
SqrtSearch(n, lo, hi) ==
    IF lo = hi THEN lo
    ELSE IF ((lo + hi + 1) \div 2) * ((lo + hi + 1) \div 2) <= n
         THEN SqrtSearch(n, (lo + hi + 1) \div 2, hi)
         ELSE SqrtSearch(n, lo, (lo + hi + 1) \div 2 - 1)

\* The integer part of the square root of n >= 0 (46340^2 < 2^31).
ISqrt(n) == SqrtSearch(n, 0, IF n < 46340 THEN n ELSE 46340)
IsSquare(n) == ISqrt(n) * ISqrt(n) = n

\* math.Sqrt on the squares of rationals.
RIsSquare(a) == a[1] >= 0 /\ IsSquare(a[1]) /\ IsSquare(a[2])
Sqrt(a) == <<ISqrt(a[1]), ISqrt(a[2])>>

(***************************************************************************)
(* Points, rotations, transforms, sweeps (math.go).                        *)
(***************************************************************************)
ZeroPt == <<Zero, Zero>>

Add(p, q) == <<RAdd(p[1], q[1]), RAdd(p[2], q[2])>>
Sub(p, q) == <<RSub(p[1], q[1]), RSub(p[2], q[2])>>
Mul(p, k) == <<RMul(p[1], k), RMul(p[2], k)>>
Div(p, k) == <<RDiv(p[1], k), RDiv(p[2], k)>>
Neg(p) == <<RNeg(p[1]), RNeg(p[2])>>
LengthSquared(p) == RAdd(RMul(p[1], p[1]), RMul(p[2], p[2]))
Dot(p, q) == RAdd(RMul(p[1], q[1]), RMul(p[2], q[2]))
Cross(p, q) == RSub(RMul(p[1], q[2]), RMul(p[2], q[1]))
CrossPS(p, s) == <<RMul(s, p[2]), RMul(RNeg(s), p[1])>>
CrossSP(s, p) == <<RMul(RNeg(s), p[2]), RMul(s, p[1])>>

\* Whether Length and Normalize of p are rational.
HasLength(p) == RIsSquare(LengthSquared(p))
Length(p) == Sqrt(LengthSquared(p))
\* Normalize from the line that tests the length l.
NormalizeBy(p, l) == IF l = Zero THEN p ELSE Div(p, l)
Normalize(p) == NormalizeBy(p, Length(p))

\* NewRotation for an angle of q quarter turns, q a whole number.
NewRotation(q) ==
    CASE q[2] = 1 /\ q[1] % 4 = 0 -> [Sin |-> Zero, Cos |-> One]
      [] q[2] = 1 /\ q[1] % 4 = 1 -> [Sin |-> One, Cos |-> Zero]
      [] q[2] = 1 /\ q[1] % 4 = 2 -> [Sin |-> Zero, Cos |-> <<-1, 1>>]
      [] q[2] = 1 /\ q[1] % 4 = 3 -> [Sin |-> <<-1, 1>>, Cos |-> Zero]

RotMul(r, p) ==
    <<RSub(RMul(p[1], r.Cos), RMul(p[2], r.Sin)),
      RAdd(RMul(p[1], r.Sin), RMul(p[2], r.Cos))>>

RotMulT(r, p) ==
    <<RAdd(RMul(p[1], r.Cos), RMul(p[2], r.Sin)),
      RSub(RMul(p[2], r.Cos), RMul(p[1], r.Sin))>>

NewTransform(position, q) == [Position |-> position, Rotation |-> NewRotation(q)]

XfMul(t, p) == Add(RotMul(t.Rotation, p), t.Position)
XfMulT(t, p) == RotMulT(t.Rotation, Sub(p, t.Position))

\* Sweep{P0, P1, R0, R1}
Sweep(p0, p1, r0, r1) == [P0 |-> p0, P1 |-> p1, R0 |-> r0, R1 |-> r1]

\* Sweep.GetTransform(t).  The model draws sweeps with R0 = R1, for which
\* R0*(1-t) + R1*t is the whole number R0 at every t.
GetTransform(s, t) ==
    NewTransform(Add(Mul(s.P0, RSub(One, t)), Mul(s.P1, t)),
                 RAdd(RMul(s.R0, RSub(One, t)), RMul(s.R1, t)))

(***************************************************************************)
(* Shapes (shape.go).  Indices are those of the Go code, from 0; a Go      *)
(* slice xs is the sequence whose element i is xs[i + 1].                  *)
(***************************************************************************)
At(xs, i) == xs[i + 1]

\* &Circle{Center: center, Radius: radius}
Circle(center, radius) ==
    [kind |-> "circle", Center |-> center, Radius |-> radius,
     Points |-> <<>>, Normals |-> <<>>]

\* A variant of EdgeNormal that takes the perpendicular on the other side
\* of the edge.
EdgeNormalInward(points, i) ==
    Normalize(CrossSP(One, Sub(At(points, IF i + 1 >= Len(points) THEN 0 ELSE i + 1),
                               At(points, i))))

\* The edge normal NewPolygon computes for edge i.
EdgeNormal(points, i) ==
    Normalize(CrossPS(Sub(At(points, IF i + 1 >= Len(points) THEN 0 ELSE i + 1),
                          At(points, i)), One))

NewPolygon(points) ==
    [kind |-> "polygon", Center |-> ZeroPt, Radius |-> Zero,
     Points |-> points,
     Normals |-> [k \in 1..Len(points) |-> EdgeNormal(points, k - 1)]]

Rectangle(center, extents) ==
    NewPolygon(<<Add(center, <<RNeg(extents[1]), RNeg(extents[2])>>),
                 Add(center, <<extents[1], RNeg(extents[2])>>),
                 Add(center, <<extents[1], extents[2]>>),
                 Add(center, <<RNeg(extents[1]), extents[2]>>)>>)

\* The loop of Polygon.getSupport from index i on.
RECURSIVE SupportLoop(_, _, _, _, _)
SupportLoop(points, dir, i, index, maxDist) ==
    IF i >= Len(points) THEN index
    ELSE IF RGt(Dot(dir, At(points, i)), maxDist)
         THEN SupportLoop(points, dir, i + 1, i, Dot(dir, At(points, i)))
         ELSE SupportLoop(points, dir, i + 1, index, maxDist)

getSupport(shape, dir) ==
    IF shape.kind = "circle" THEN 0
    ELSE SupportLoop(shape.Points, dir, 1, 0, Dot(dir, At(shape.Points, 0)))

getVertex(shape, index) ==
    IF shape.kind = "circle" THEN shape.Center ELSE At(shape.Points, index)

(***************************************************************************)
(* The simplex and its cache (gjk part of math.go).                        *)
(***************************************************************************)
Vertex(a, b, p, u, indexA, indexB) ==
    [a |-> a, b |-> b, p |-> p, u |-> u, indexA |-> indexA, indexB |-> indexB]

\* The zero value of the Go struct vertex.
ZeroVertex == Vertex(ZeroPt, ZeroPt, ZeroPt, Zero, 0, 0)

\* var simplex Simplex
ZeroSimplex == [count |-> 0, v |-> [i \in 0..2 |-> ZeroVertex]]

\* &SimplexCache{}
ZeroCache == [metric |-> Zero, count |-> 0,
              indexA |-> [i \in 0..2 |-> 0], indexB |-> [i \in 0..2 |-> 0]]

ClosestPoint(s) ==
    CASE s.count = 1 -> s.v[0].p
      [] s.count = 2 -> Add(Mul(s.v[0].p, s.v[0].u), Mul(s.v[1].p, s.v[1].u))
      [] s.count = 3 -> ZeroPt

\* searchDirection, case 2, from the line that tests sign.
searchDirectionLine(ab, sign) ==
    IF RGt(sign, Zero) THEN CrossSP(One, ab) ELSE CrossPS(ab, One)

searchDirection(s) ==
    CASE s.count = 1 -> Neg(s.v[0].p)
      [] s.count = 2 ->
           searchDirectionLine(Sub(s.v[1].p, s.v[0].p),
                               Cross(Sub(s.v[1].p, s.v[0].p), Neg(s.v[0].p)))

\* A variant of LineRegions whose vertex regions keep the other vertex: it
\* yields a point of the simplex that is not the closest.
LineRegionsSwapped(s, n, u, v) ==
    IF RLe(v, Zero) THEN [s EXCEPT !.count = 1, !.v[0] = s.v[1]]
    ELSE IF RLe(u, Zero) THEN [s EXCEPT !.count = 1]
    ELSE [s EXCEPT !.v[0].u = RDiv(u, LengthSquared(n)),
                   !.v[1].u = RDiv(v, LengthSquared(n))]

\* evolveLine from Region A on.
LineRegions(s, n, u, v) ==
    IF RLe(v, Zero) THEN [s EXCEPT !.count = 1]
    ELSE IF RLe(u, Zero) THEN [s EXCEPT !.count = 1, !.v[0] = s.v[1]]
    ELSE [s EXCEPT !.v[0].u = RDiv(u, LengthSquared(n)),
                   !.v[1].u = RDiv(v, LengthSquared(n))]

\* evolveLine from the barycentric coordinates on.
LineCoordinates(s, n) == LineRegions(s, n, Dot(s.v[1].p, n), Dot(Neg(s.v[0].p), n))

evolveLine(s) == LineCoordinates(s, Sub(s.v[1].p, s.v[0].p))

\* evolveTriangle from Region AB on; sC is the simplex Region C left.
TriangleEdgeRegions(s, sC, uAB, vAB, uBC, vBC, uCA, vCA, uABC, vABC, wABC, d) ==
    IF RGt(uAB, Zero) /\ RGt(vAB, Zero) /\ RLe(wABC, Zero)
      THEN [sC EXCEPT !.count = 2,
              !.v[0] = [s.v[0] EXCEPT !.u = RDiv(uAB, LengthSquared(Sub(s.v[1].p, s.v[0].p)))],
              !.v[1] = [s.v[1] EXCEPT !.u = RDiv(vAB, LengthSquared(Sub(s.v[1].p, s.v[0].p)))]]
    ELSE IF RGt(uBC, Zero) /\ RGt(vBC, Zero) /\ RLe(uABC, Zero)
      THEN [sC EXCEPT !.count = 2,
              !.v[0] = [s.v[1] EXCEPT !.u = RDiv(uBC, LengthSquared(Sub(s.v[2].p, s.v[1].p)))],
              !.v[1] = [s.v[2] EXCEPT !.u = RDiv(vBC, LengthSquared(Sub(s.v[2].p, s.v[1].p)))]]
    ELSE IF RGt(uCA, Zero) /\ RGt(vCA, Zero) /\ RLe(vABC, Zero)
      THEN [sC EXCEPT !.count = 2,
              !.v[0] = [s.v[2] EXCEPT !.u = RDiv(uCA, LengthSquared(Sub(s.v[0].p, s.v[2].p)))],
              !.v[1] = [s.v[0] EXCEPT !.u = RDiv(vCA, LengthSquared(Sub(s.v[0].p, s.v[2].p)))]]
    ELSE [sC EXCEPT !.v[0].u = RDiv(uABC, d),
                    !.v[1].u = RDiv(vABC, d),
                    !.v[2].u = RDiv(wABC, d)]

\* evolveTriangle from Region A on.  Region C assigns and does not return.
TriangleRegions(s, uAB, vAB, uBC, vBC, uCA, vCA, uABC, vABC, wABC) ==
    IF RLe(vAB, Zero) /\ RLe(uCA, Zero) THEN [s EXCEPT !.count = 1]
    ELSE IF RLe(uAB, Zero) /\ RLe(vBC, Zero)
      THEN [s EXCEPT !.count = 1, !.v[0] = s.v[1]]
    ELSE TriangleEdgeRegions(s,
             IF RLe(uBC, Zero) /\ RLe(vCA, Zero)
             THEN [s EXCEPT !.count = 1, !.v[0] = s.v[2]] ELSE s,
             uAB, vAB, uBC, vBC, uCA, vCA, uABC, vABC, wABC,
             RAdd(RAdd(uABC, vABC), wABC))

\* evolveTriangle from the edge coordinates on.
TriangleCoordinates(s, a, b, c, ab, bc, ca, area) ==
    TriangleRegions(s, Dot(b, ab), Dot(Neg(a), ab),
                       Dot(c, bc), Dot(Neg(b), bc),
                       Dot(a, ca), Dot(Neg(c), ca),
                       RMul(Cross(b, c), area),
                       RMul(Cross(c, a), area),
                       RMul(Cross(a, b), area))

evolveTriangle(s) ==
    TriangleCoordinates(s, s.v[0].p, s.v[1].p, s.v[2].p,
                        Sub(s.v[1].p, s.v[0].p), Sub(s.v[2].p, s.v[1].p),
                        Sub(s.v[0].p, s.v[2].p),
                        Cross(Sub(s.v[1].p, s.v[0].p), Sub(s.v[2].p, s.v[0].p)))

evolve(s) ==
    CASE s.count = 1 -> s
      [] s.count = 2 -> evolveLine(s)
      [] s.count = 3 -> evolveTriangle(s)

Metric(s) ==
    CASE s.count = 1 -> Zero
      \* the length of a.p - b.p, kept as its square
      [] s.count = 2 -> LengthSquared(Sub(s.v[0].p, s.v[1].p))
      [] s.count = 3 -> Cross(Sub(s.v[1].p, s.v[0].p), Sub(s.v[2].p, s.v[0].p))

\* Whether a < 1/k, for a whole number k > 0.
RLtInv(a, k) == a[1] <= 0 \/ (a[2] - 1) \div a[1] >= k

\* ReadCache's test "mNew < 0.5*mOld || 2*mOld < mNew || mNew < 0.0001".
\* For two vertices the metrics are squared lengths, and so are the bounds.
MetricDiffers(count, mOld, mNew) ==
    IF count = 2
    THEN RLt(mNew, RMul(<<1, 4>>, mOld)) \/ RLt(RMul(<<4, 1>>, mOld), mNew)
         \/ RLtInv(mNew, 100000000)
    ELSE RLt(mNew, RMul(Half, mOld)) \/ RLt(RMul(<<2, 1>>, mOld), mNew)
         \/ RLtInv(mNew, 10000)

\* The vertex ReadCache rebuilds for the pair (indexA, indexB); u is kept.
CachedVertex(v, a, xfa, b, xfb, indexA, indexB) ==
    [v EXCEPT !.indexA = indexA, !.indexB = indexB,
              !.a = getVertex(a, indexA), !.b = getVertex(b, indexB),
              !.p = Sub(XfMul(xfb, getVertex(b, indexB)),
                        XfMul(xfa, getVertex(a, indexA)))]

\* ReadCache from the metric test on.
ReadCacheMetric(s, mOld) ==
    IF s.count > 1 /\ MetricDiffers(s.count, mOld, Metric(s))
    THEN [s EXCEPT !.count = 0]
    ELSE s

ReadCache(s, cache, a, xfa, b, xfb) ==
    ReadCacheMetric(
        [count |-> cache.count,
         v |-> [i \in 0..2 |->
                  IF i < cache.count
                  THEN CachedVertex(s.v[i], a, xfa, b, xfb,
                                    cache.indexA[i], cache.indexB[i])
                  ELSE s.v[i]]],
        cache.metric)

WriteCache(s, cache) ==
    [metric |-> Metric(s), count |-> s.count,
     indexA |-> [i \in 0..2 |-> IF i < s.count THEN s.v[i].indexA ELSE cache.indexA[i]],
     indexB |-> [i \in 0..2 |-> IF i < s.count THEN s.v[i].indexB ELSE cache.indexB[i]]]

\* The vertex GJK builds from the support indices.
SupportVertex(a, xfa, b, xfb, indexA, indexB) ==
    Vertex(getVertex(a, indexA), getVertex(b, indexB),
           Sub(XfMul(xfb, getVertex(b, indexB)), XfMul(xfa, getVertex(a, indexA))),
           One, indexA, indexB)

\* The head of GJK: an empty simplex is seeded with the vertices of index 0.
GJKSeed(s, a, xfa, b, xfb) ==
    IF s.count = 0
    THEN [s EXCEPT !.count = 1, !.v[0] = SupportVertex(a, xfa, b, xfb, 0, 0)]
    ELSE s

\* A variant of IsDuplicate that compares the pair with vertex 0 alone.
DuplicateOfFirst(old, indexA, indexB) ==
    old.count > 0 /\ indexA = old.v[0].indexA /\ indexB = old.v[0].indexB

\* A variant of IsDuplicate that never finds the pair: GJK without its
\* main termination criterion.
NeverDuplicate(old, indexA, indexB) == FALSE

\* Whether the pair (indexA, indexB) is among the pairs of the simplex old.
IsDuplicate(old, indexA, indexB) ==
    \E i \in 0..(old.count - 1) :
        indexA = old.v[i].indexA /\ indexB = old.v[i].indexB

\* GJK's loop body from the duplicate check on: old is the simplex before
\* evolve, s the simplex after it.
GJKSupport(old, s, a, xfa, b, xfb, indexA, indexB) ==
    IF IsDuplicate(old, indexA, indexB) THEN [s |-> s, exit |-> "duplicate"]
    ELSE [s |-> [s EXCEPT !.v[s.count] = SupportVertex(a, xfa, b, xfb, indexA, indexB),
                          !.count = s.count + 1],
          exit |-> ""]

\* GJK's loop body from the test of the search direction on.
GJKSearch(old, s, a, xfa, b, xfb, dir) ==
    IF LengthSquared(dir) = Zero THEN [s |-> s, exit |-> "zero"]
    ELSE GJKSupport(old, s, a, xfa, b, xfb,
                    getSupport(a, RotMulT(xfa.Rotation, Neg(dir))),
                    getSupport(b, RotMulT(xfb.Rotation, dir)))

\* GJK's loop body after evolve.
GJKEvolved(old, s, a, xfa, b, xfb) ==
    IF s.count = 3 THEN [s |-> s, exit |-> "triangle"]
    ELSE GJKSearch(old, s, a, xfa, b, xfb, searchDirection(s))

\* One iteration of GJK's loop on simplex s: the simplex after it, and
\* the exit taken ("" when the loop goes on).
GJKIteration(s, a, xfa, b, xfb) == GJKEvolved(s, evolve(s), a, xfa, b, xfb)

\* GJK's loop, run to its exit: it is the outcome of the last iteration.
RECURSIVE GJKLoop(_, _, _, _, _)
GJKLoop(it, a, xfa, b, xfb) ==
    IF it.exit # "" THEN it.s
    ELSE GJKLoop(GJKIteration(it.s, a, xfa, b, xfb), a, xfa, b, xfb)

\* Simplex.GJK(a, xfa, b, xfb) on the simplex s: the simplex it leaves.
GJK(s, a, xfa, b, xfb) ==
    GJKLoop([s |-> GJKSeed(s, a, xfa, b, xfb), exit |-> ""], a, xfa, b, xfb)

\* Distance(a, xfa, b, xfb), kept as its square.
Distance(a, xfa, b, xfb) ==
    LengthSquared(ClosestPoint(GJK(ZeroSimplex, a, xfa, b, xfb)))

\* Simplex.WitnessPoints(): the pair it returns.  Case 1 reads the b of
\* vertex 1.
WitnessPoints(s) ==
    CASE s.count = 1 -> <<s.v[0].a, s.v[1].b>>
      [] s.count = 2 ->
           <<Add(Mul(s.v[0].a, s.v[0].u), Mul(s.v[1].a, s.v[1].u)),
             Add(Mul(s.v[0].b, s.v[0].u), Mul(s.v[1].b, s.v[1].u))>>
      [] s.count = 3 ->
           <<Add(Add(Mul(s.v[0].a, s.v[0].u), Mul(s.v[1].a, s.v[1].u)),
                 Mul(s.v[2].a, s.v[2].u)),
             Add(Add(Mul(s.v[0].a, s.v[0].u), Mul(s.v[1].a, s.v[1].u)),
                 Mul(s.v[2].a, s.v[2].u))>>

(***************************************************************************)
(* The collision dispatcher (collide.go).                                  *)
(***************************************************************************)
\* math.MaxFloat64: above every number the model computes.
MaxFloat64 == <<1, 0>>

\* A nil *Collision.
None == [kind |-> "none", Normal |-> ZeroPt, Depth |-> Zero]
\* &Collision{Normal: normal, Depth: depth}
Contact(normal, depth) == [kind |-> "contact", Normal |-> normal, Depth |-> depth]
\* A collision whose normal or depth is irrational: outside the model.
Irrational == [kind |-> "irrational", Normal |-> ZeroPt, Depth |-> Zero]

\* CollideCircles from the test "d > r*r" on.
CirclesContact(n, r, d) ==
    IF RGt(d, RMul(r, r)) THEN None
    ELSE IF ~RIsSquare(d) THEN Irrational
    ELSE Contact(IF d # Zero THEN Div(n, d) ELSE <<One, Zero>>, RSub(Sqrt(d), r))

\* CollideCircles from the centres on.
CirclesBetween(centerA, centerB, r) ==
    CirclesContact(Sub(centerB, centerA), r, LengthSquared(Sub(centerB, centerA)))

CollideCircles(a, xfa, b, xfb) ==
    CirclesBetween(Add(xfa.Position, a.Center), Add(xfb.Position, b.Center),
                   RAdd(a.Radius, b.Radius))

\* The loop of CollidePolygonAndCircle from edge i on: whether it returned
\* nil, and the edge of greatest separation.
RECURSIVE FaceLoop(_, _, _, _, _, _)
FaceLoop(a, center, radius, i, normalIndex, separation) ==
    IF i >= Len(a.Points)
    THEN [out |-> FALSE, normalIndex |-> normalIndex, separation |-> separation]
    ELSE LET s == Dot(At(a.Normals, i), Sub(center, At(a.Points, i)))
         IN  IF RGt(s, radius)
             THEN [out |-> TRUE, normalIndex |-> normalIndex, separation |-> separation]
             ELSE IF RGt(s, separation)
             THEN FaceLoop(a, center, radius, i + 1, i, s)
             ELSE FaceLoop(a, center, radius, i + 1, normalIndex, separation)

\* The normal n, normalized, as a contact of the given depth.
NormalizedContact(n, depth) ==
    IF ~HasLength(n) THEN Irrational ELSE Contact(Normalize(n), depth)

\* CollidePolygonAndCircle from the test "separation == 0" on.
CircleRegion(a, xfa, b, center, separation, normalIndex, v1, v2) ==
    IF separation = Zero
      THEN Contact(Neg(RotMul(xfa.Rotation, At(a.Normals, normalIndex))), b.Radius)
    ELSE IF RLe(Dot(Sub(center, v1), Sub(v2, v1)), Zero)
      THEN IF RGt(Dot(Sub(center, v1), Sub(center, v1)), RMul(b.Radius, b.Radius))
           THEN None
           ELSE NormalizedContact(RotMul(xfa.Rotation, Sub(v1, center)),
                                  RSub(b.Radius, separation))
    ELSE IF RLe(Dot(Sub(center, v2), Sub(v1, v2)), Zero)
      THEN IF RGt(Dot(Sub(center, v2), Sub(center, v2)), RMul(b.Radius, b.Radius))
           THEN None
           ELSE NormalizedContact(RotMul(xfa.Rotation, Sub(center, v2)),
                                  RSub(b.Radius, separation))
    ELSE IF RGt(Dot(Sub(center, Mul(Add(v1, v2), Half)), At(a.Normals, normalIndex)),
                b.Radius)
           THEN None
           ELSE Contact(RotMul(xfa.Rotation, At(a.Normals, normalIndex)),
                        RSub(b.Radius, separation))

\* CollidePolygonAndCircle after its loop.
CircleFace(a, xfa, b, center, face) ==
    IF face.out THEN None
    ELSE CircleRegion(a, xfa, b, center, face.separation, face.normalIndex,
                      At(a.Points, face.normalIndex),
                      At(a.Points, IF face.normalIndex + 1 = Len(a.Points)
                                   THEN 0 ELSE face.normalIndex + 1))

\* CollidePolygonAndCircle from the circle's centre in a's frame on.
CircleCenter(a, xfa, b, center) ==
    CircleFace(a, xfa, b, center, FaceLoop(a, center, b.Radius, 0, 0, RNeg(MaxFloat64)))

CollidePolygonAndCircle(a, xfa, b, xfb) ==
    CircleCenter(a, xfa, b, XfMulT(xfa, Add(b.Center, xfb.Position)))

\* CollideCircleAndPolygon after its call.
NegatedContact(collision) ==
    IF collision.kind = "contact"
    THEN [collision EXCEPT !.Normal = Neg(collision.Normal)]
    ELSE collision

CollideCircleAndPolygon(a, xfa, b, xfb) ==
    NegatedContact(CollidePolygonAndCircle(b, xfb, a, xfa))

\* The inner loop of findMaxSeparation from vertex j of b on.
RECURSIVE DeepestLoop(_, _, _, _, _)
DeepestLoop(n, v, points, j, d) ==
    IF j >= Len(points) THEN d
    ELSE IF RLt(Dot(n, Sub(At(points, j), v)), d)
         THEN DeepestLoop(n, v, points, j + 1, Dot(n, Sub(At(points, j), v)))
         ELSE DeepestLoop(n, v, points, j + 1, d)

\* The outer loop of findMaxSeparation from edge i of a on, and its body
\* once the deepest point d of edge i is known.
RECURSIVE MaxSeparationLoop(_, _, _, _, _, _, _)
MaxSeparationStore(a, xfa, b, xfb, i, bestIndex, maxSeparation, d) ==
    IF RGt(d, maxSeparation)
    THEN MaxSeparationLoop(a, xfa, b, xfb, i + 1, i, d)
    ELSE MaxSeparationLoop(a, xfa, b, xfb, i + 1, bestIndex, maxSeparation)

MaxSeparationLoop(a, xfa, b, xfb, i, bestIndex, maxSeparation) ==
    IF i >= Len(a.Points)
    THEN [index |-> bestIndex, separation |-> maxSeparation]
    ELSE MaxSeparationStore(a, xfa, b, xfb, i, bestIndex, maxSeparation,
             DeepestLoop(RotMulT(xfb.Rotation, RotMul(xfa.Rotation, At(a.Normals, i))),
                         XfMulT(xfb, XfMul(xfa, At(a.Points, i))),
                         b.Points, 0, MaxFloat64))

findMaxSeparation(a, xfa, b, xfb) ==
    MaxSeparationLoop(a, xfa, b, xfb, 0, 0, RNeg(MaxFloat64))

\* The loop of findIncidentEdge from normal i of b on.
RECURSIVE IncidentLoop(_, _, _, _, _)
IncidentLoop(normal, normals, i, index, minDot) ==
    IF i >= Len(normals) THEN index
    ELSE IF RLt(Dot(normal, At(normals, i)), minDot)
         THEN IncidentLoop(normal, normals, i + 1, i, Dot(normal, At(normals, i)))
         ELSE IncidentLoop(normal, normals, i + 1, index, minDot)

\* findIncidentEdge after its loop.
IncidentVertices(b, xfb, i) ==
    <<XfMul(xfb, At(b.Points, i)),
      XfMul(xfb, At(b.Points, IF i + 1 = Len(b.Points) THEN 0 ELSE i + 1))>>

findIncidentEdge(a, xfa, b, xfb, edge) ==
    IncidentVertices(b, xfb,
        IncidentLoop(RotMulT(xfb.Rotation, RotMul(xfa.Rotation, At(a.Normals, edge))),
                     b.Normals, 0, 0, MaxFloat64))

\* The end of clip: out starts as a copy of edge and its first Len(kept)
\* slots are overwritten; the result is sp and the edge as clip leaves it.
clipOut(edge, kept) ==
    [sp |-> Len(kept),
     edge |-> <<IF Len(kept) >= 1 THEN kept[1] ELSE edge[1],
                IF Len(kept) >= 2 THEN kept[2] ELSE edge[2]>>]

\* clip from the test of d1 on.
clipDistances(edge, d1, d2) ==
    clipOut(edge,
            (IF RLe(d1, Zero) THEN <<edge[1]>> ELSE <<>>)
            \o (IF RLe(d2, Zero) THEN <<edge[2]>> ELSE <<>>)
            \o (IF RLt(RMul(d1, d2), Zero)
                THEN <<Add(edge[1], Mul(Sub(edge[2], edge[1]), RDiv(d1, RSub(d1, d2))))>>
                ELSE <<>>))

clip(n, c, edge) ==
    clipDistances(edge, RSub(Dot(n, edge[1]), c), RSub(Dot(n, edge[2]), c))

\* CollidePolygons from "var overlap float64" on.
PolygonsOverlap(flip, normal, separation0, separation1) ==
    LET overlap0 == IF RLe(separation0, Zero) THEN RNeg(separation0) ELSE Zero
        overlap == IF RLe(separation1, Zero)
                   THEN RMax(overlap0, RNeg(separation1))
                   ELSE overlap0
    IN  IF overlap = Zero THEN None
        ELSE Contact(IF flip THEN Neg(normal) ELSE normal, overlap)

\* CollidePolygons after the second clip.
PolygonsClipPos(flip, normal, refC, clipped) ==
    IF clipped.sp < 2 THEN None
    ELSE PolygonsOverlap(flip, normal,
                         RSub(Dot(normal, clipped.edge[1]), refC),
                         RSub(Dot(normal, clipped.edge[2]), refC))

\* CollidePolygons after the first clip.
PolygonsClipNeg(flip, tangent, normal, v1, v2, clipped) ==
    IF clipped.sp < 2 THEN None
    ELSE PolygonsClipPos(flip, normal, Dot(normal, v1),
                         clip(tangent, Dot(tangent, v2), clipped.edge))

\* CollidePolygons from the side planes on.
PolygonsClip(flip, incidentEdge, tangent, v1, v2) ==
    PolygonsClipNeg(flip, tangent, CrossPS(tangent, One), v1, v2,
                    clip(Neg(tangent), RNeg(Dot(tangent, v1)), incidentEdge))

\* CollidePolygons from findIncidentEdge on: a is the reference polygon.
PolygonsReference(a, xfa, b, xfb, edge, flip) ==
    LET v1 == At(a.Points, edge)
        v2 == At(a.Points, IF edge + 1 = Len(a.Points) THEN 0 ELSE edge + 1)
    IN  PolygonsClip(flip, findIncidentEdge(a, xfa, b, xfb, edge),
                     RotMul(xfa.Rotation, Normalize(Sub(v2, v1))),
                     XfMul(xfa, v1), XfMul(xfa, v2))

\* CollidePolygons after the second findMaxSeparation.
PolygonsSeparationB(a, xfa, b, xfb, sepA, sepB) ==
    IF RGe(sepB.separation, Zero) THEN None
    ELSE IF RGt(sepB.separation, sepA.separation)
    THEN PolygonsReference(b, xfb, a, xfa, sepB.index, TRUE)
    ELSE PolygonsReference(a, xfa, b, xfb, sepA.index, FALSE)

\* CollidePolygons after the first findMaxSeparation.
PolygonsSeparationA(a, xfa, b, xfb, sepA) ==
    IF RGe(sepA.separation, Zero) THEN None
    ELSE PolygonsSeparationB(a, xfa, b, xfb, sepA, findMaxSeparation(b, xfb, a, xfa))

CollidePolygons(a, xfa, b, xfb) ==
    PolygonsSeparationA(a, xfa, b, xfb, findMaxSeparation(a, xfa, b, xfb))

Collide(a, xfa, b, xfb) ==
    CASE a.kind = "circle" /\ b.kind = "circle" -> CollideCircles(a, xfa, b, xfb)
      [] a.kind = "circle" /\ b.kind = "polygon" -> CollideCircleAndPolygon(a, xfa, b, xfb)
      [] a.kind = "polygon" /\ b.kind = "circle" -> CollidePolygonAndCircle(a, xfa, b, xfb)
      [] a.kind = "polygon" /\ b.kind = "polygon" -> CollidePolygons(a, xfa, b, xfb)

(***************************************************************************)
(* The separation function and the time of impact (toi.go).                *)
(***************************************************************************)
\* A variant of target: a desired separation of 1/2.
CoarseTarget == <<1, 2>>

\* A variant of target with the decimal point one place off.
TenthTarget == <<1, 10>>

\* const target = 0.01
target == <<1, 100>>
\* const tolerance = 0.25 * 0.005
tolerance == <<1, 800>>

\* The caps of TimeOfImpact's outer loop, inner loop and root finder.
MaxOuter == 100
MaxInner == 20
MaxRoot == 50

\* newSeparation(shapeA, shapeB); the shapes are those of the running call.
newSeparation ==
    [kind |-> "axisPoints", axis |-> ZeroPt, local |-> ZeroPt, rational |-> TRUE]

\* A separation function whose axis is irrational: outside the model.
IrrationalAxis ==
    [kind |-> "axisPoints", axis |-> ZeroPt, local |-> ZeroPt, rational |-> FALSE]

\* init, case cache.count == 1, from the difference of the two points on.
PointsAxis(d) ==
    IF ~HasLength(d) THEN IrrationalAxis
    ELSE [kind |-> "axisPoints", axis |-> Normalize(d), local |-> ZeroPt,
          rational |-> TRUE]

\* init, face cases, from the test "dist < 0" on.
FaceSign(kind, axis, local, dist) ==
    [kind |-> kind, axis |-> IF RLt(dist, Zero) THEN Neg(axis) ELSE axis,
     local |-> local, rational |-> TRUE]

\* init, face cases, once axis and local are set: xf is the transform of
\* the shape that owns the face, point the world point on the other shape.
FaceDist(kind, xf, axis, local, point) ==
    FaceSign(kind, axis, local,
             Dot(Sub(point, XfMul(xf, local)), RotMul(xf.Rotation, axis)))

\* init, face cases, from the two points of the face on.
FaceAxis(kind, xf, point1, point2, point) ==
    IF ~HasLength(Sub(point2, point1)) THEN IrrationalAxis
    ELSE FaceDist(kind, xf, CrossPS(Normalize(Sub(point2, point1)), One),
                  Mul(Add(point1, point2), Half), point)

\* separation.init(cache, xfa, xfb) for the shapes a and b.
separationInit(a, b, cache, xfa, xfb) ==
    IF cache.count = 1
    THEN PointsAxis(Sub(XfMul(xfb, getVertex(b, cache.indexB[0])),
                        XfMul(xfa, getVertex(a, cache.indexA[0]))))
    ELSE IF cache.indexA[0] = cache.indexA[1]
    THEN FaceAxis("axisFaceB", xfb,
                  getVertex(b, cache.indexB[0]), getVertex(b, cache.indexB[1]),
                  XfMul(xfa, getVertex(a, cache.indexA[0])))
    ELSE FaceAxis("axisFaceA", xfa,
                  getVertex(a, cache.indexA[0]), getVertex(a, cache.indexA[1]),
                  XfMul(xfb, getVertex(b, cache.indexB[0])))

\* separation.Evaluate(indexA, xfa, indexB, xfb) for the shapes a and b.
Evaluate(fcn, a, b, indexA, xfa, indexB, xfb) ==
    CASE fcn.kind = "axisPoints" ->
           Dot(Sub(XfMul(xfb, getVertex(b, indexB)), XfMul(xfa, getVertex(a, indexA))),
               fcn.axis)
      [] fcn.kind = "axisFaceA" ->
           Dot(Sub(XfMul(xfb, getVertex(b, indexB)), XfMul(xfa, fcn.local)),
               RotMul(xfa.Rotation, fcn.axis))
      [] fcn.kind = "axisFaceB" ->
           Dot(Sub(XfMul(xfa, getVertex(a, indexA)), XfMul(xfb, fcn.local)),
               RotMul(xfb.Rotation, fcn.axis))

\* MinSeparation once the support indices are known.  In each case the
\* separation it returns is the expression Evaluate computes.
MinSeparationAt(fcn, a, b, xfa, xfb, indexA, indexB) ==
    [indexA |-> IF fcn.kind = "axisFaceA" THEN -1 ELSE indexA,
     indexB |-> IF fcn.kind = "axisFaceB" THEN -1 ELSE indexB,
     separation |-> Evaluate(fcn, a, b, indexA, xfa, indexB, xfb)]

\* separation.MinSeparation(xfa, xfb) for the shapes a and b.
MinSeparation(fcn, a, b, xfa, xfb) ==
    CASE fcn.kind = "axisPoints" ->
           MinSeparationAt(fcn, a, b, xfa, xfb,
               getSupport(a, RotMulT(xfa.Rotation, fcn.axis)),
               getSupport(b, RotMulT(xfb.Rotation, Neg(fcn.axis))))
      [] fcn.kind = "axisFaceA" ->
           MinSeparationAt(fcn, a, b, xfa, xfb, 0,
               getSupport(b, RotMulT(xfb.Rotation, Neg(RotMul(xfa.Rotation, fcn.axis)))))
      [] fcn.kind = "axisFaceB" ->
           MinSeparationAt(fcn, a, b, xfa, xfb,
               getSupport(a, RotMulT(xfa.Rotation, Neg(RotMul(xfb.Rotation, fcn.axis)))),
               0)

\* A variant of TOILocals in which t1 starts below 0.
TOILocalsBelow ==
    [t1 |-> <<-1, 1>>, t2 |-> Zero, i |-> 0, inner |-> 0, j |-> 0,
     indexA |-> 0, indexB |-> 0, s1 |-> Zero, s2 |-> Zero,
     a1 |-> Zero, a2 |-> Zero, exit |-> ""]

\* The locals of TimeOfImpact at its entry (i and inner are the counters
\* of the outer and the inner loop), and the exit it took.
TOILocals ==
    [t1 |-> Zero, t2 |-> Zero, i |-> 0, inner |-> 0, j |-> 0,
     indexA |-> 0, indexB |-> 0, s1 |-> Zero, s2 |-> Zero,
     a1 |-> Zero, a2 |-> Zero, exit |-> ""]

\* A variant of RootEstimate whose secant step is taken away from a2.
RootEstimateOutward(j, a1, a2, s1, s2) ==
    IF j % 2 # 0
    THEN RSub(a1, RDiv(RMul(RSub(target, s1), RSub(a2, a1)), RSub(s2, s1)))
    ELSE RMul(Half, RAdd(a1, a2))

\* The next estimate of the root finder.
RootEstimate(j, a1, a2, s1, s2) ==
    IF j % 2 # 0
    THEN RAdd(a1, RDiv(RMul(RSub(target, s1), RSub(a2, a1)), RSub(s2, s1)))
    ELSE RMul(Half, RAdd(a1, a2))

(***************************************************************************)
(* The inputs of the model.                                                *)
(***************************************************************************)
\* Rectangle(Point{0, 0}, Point{0.5, 0.5}): the unit square.
UnitSquare == Rectangle(ZeroPt, <<Half, Half>>)
\* A right triangle with sides 2, 3/2, 5/2, listed in Rectangle's order.
Triangle == NewPolygon(<<ZeroPt, <<R(2, 1), Zero>>, <<Zero, R(3, 2)>>>>)
UnitCircle == Circle(ZeroPt, One)
\* A circle whose local centre is not the origin.
OffCircle == Circle(<<Half, Zero>>, Half)

Polygons == {UnitSquare, Triangle}
Circles == {UnitCircle, OffCircle}
Shapes == Polygons \cup Circles

\* The positions of b in a Distance or Collide call.
Grid == {<<R(i, 2), R(j, 2)>> : i \in -MaxOff..MaxOff, j \in -MaxOff..MaxOff}
\* Rotations, in quarter turns.
Turns == {<<q, 1>> : q \in 0..3}

\* The corners the host builds triangles from, and those it builds
\* polygons of 4 corners from.
Corners == {<<R(i, 1), R(j, 1)>> : i \in 0..(MaxOff + 1), j \in 0..MaxOff}
NearCorners == {<<R(i, 1), R(j, 1)>> : i \in 0..(MaxOff - 1), j \in 0..(MaxOff - 1)}
\* Whether the points, in their order, turn the way Rectangle's corners do
\* at every corner: a convex polygon of 3 or 4 corners, none of them flat.
TurnsLikeRectangle(points) ==
    \A i \in 0..(Len(points) - 1) :
        RGt(Cross(Sub(At(points, (i + 1) % Len(points)), At(points, i)),
                  Sub(At(points, (i + 2) % Len(points)),
                      At(points, (i + 1) % Len(points)))), Zero)
\* Whether every edge of the polygon has a rational length.
RationalEdges(points) ==
    \A i \in 0..(Len(points) - 1) :
        HasLength(Sub(At(points, (i + 1) % Len(points)), At(points, i)))
\* The centres and half extents of the rectangles the host builds.
Centers == {ZeroPt, <<One, RNeg(Half)>>, <<R(-3, 2), R(2, 1)>>}
Extents == {<<R(i, 2), R(j, 2)>> : i \in 1..MaxOff, j \in 1..MaxOff}

\* The rigid motions g the host applies to both transforms: a rotation by
\* quarter turns about the origin, then a translation.
Motions ==
    {NewTransform(p, q) : p \in {ZeroPt, <<One, RNeg(Half)>>},
                          q \in {Zero, One, <<2, 1>>}}
\* The transform g * xf the host builds: xf followed by g.  The sine and
\* cosine of the sum of two angles of quarter turns are exact.
Moved(g, xf) ==
    [Position |-> XfMul(g, xf.Position),
     Rotation |-> [Sin |-> RAdd(RMul(g.Rotation.Sin, xf.Rotation.Cos),
                                RMul(g.Rotation.Cos, xf.Rotation.Sin)),
                   Cos |-> RSub(RMul(g.Rotation.Cos, xf.Rotation.Cos),
                                RMul(g.Rotation.Sin, xf.Rotation.Sin))]]

\* Where b starts in a TimeOfImpact call: on the half-unit grid to the
\* right of a, or at a gap of 1/200 or 9/800 from the unit square.
Starts ==
    {<<x, y>> : x \in {R(i, 2) : i \in 0..MaxStart} \cup {R(201, 200), R(809, 800)},
                y \in {Zero, Half}}
\* The displacement of b relative to a during the sweep.
Moves == {ZeroPt, <<R(-1, 1), Zero>>, <<R(-3, 1), Zero>>, <<Zero, R(-1, 1)>>,
          <<R(-2, 1), R(-2, 1)>>}
\* The displacement both shapes share.
Drifts == {ZeroPt, <<One, Half>>}

(***************************************************************************)
(* The state.                                                              *)
(***************************************************************************)
VARIABLES
    pc,        \* the position of the running call
    op,        \* the running call: "Query" (Distance, then Collide) or "TOI"
    shapeA, shapeB,
    xfA, xfB,  \* the transforms GJK runs on
    simplex,   \* the Simplex GJK works on
    exit,      \* the exit GJK's loop took
    distSq,    \* the square of the distance GJK found
    collision, \* what Collide(a, xfa, b, xfb) returned
    swapped,   \* what Collide(b, xfb, a, xfa) returned
    witness,   \* what simplex.WitnessPoints() returned
    motion,    \* the rigid motion g of the second placement
    movedDistSq,    \* the square of Distance(a, g*xfa, b, g*xfb)
    movedCollision, \* what Collide(a, g*xfa, b, g*xfb) returned
    given,     \* the points the host passed to NewPolygon
    polygon,   \* the Polygon NewPolygon returned
    sweepA, sweepB,
    cache,     \* TimeOfImpact's SimplexCache
    fcn,       \* TimeOfImpact's separation function
    toi,       \* TimeOfImpact's locals, and the exit it took
    result     \* what TimeOfImpact returned

vars == <<pc, op, shapeA, shapeB, xfA, xfB, simplex, exit, distSq,
          collision, swapped, witness, motion, movedDistSq, movedCollision,
          given, polygon, sweepA, sweepB, cache, fcn, toi, result>>

\* What the Distance and Collide calls leave alone.
toiVars == <<sweepA, sweepB, cache, fcn, toi, result>>
\* What TimeOfImpact leaves alone.
queryVars == <<collision, swapped, witness, motion, movedDistSq, movedCollision,
               given, polygon>>
\* What the two Collide calls leave alone.
placedVars == <<witness, motion, movedDistSq, movedCollision>>
\* The polygon the host built.
shapeVars == <<given, polygon>>

Init ==
    /\ pc = "idle"
    /\ op = "none"
    /\ shapeA = UnitSquare
    /\ shapeB = UnitSquare
    /\ xfA = NewTransform(ZeroPt, Zero)
    /\ xfB = NewTransform(ZeroPt, Zero)
    /\ simplex = ZeroSimplex
    /\ exit = ""
    /\ distSq = Zero
    /\ collision = None
    /\ swapped = None
    /\ witness = <<ZeroPt, ZeroPt>>
    /\ motion = NewTransform(ZeroPt, Zero)
    /\ movedDistSq = Zero
    /\ movedCollision = None
    /\ given = <<>>
    /\ polygon = UnitSquare
    /\ sweepA = Sweep(ZeroPt, ZeroPt, Zero, Zero)
    /\ sweepB = Sweep(ZeroPt, ZeroPt, Zero, Zero)
    /\ cache = ZeroCache
    /\ fcn = newSeparation
    /\ toi = TOILocals
    /\ result = Zero

\* The host calls Distance(a, xfa, b, xfb): var simplex Simplex; simplex.GJK(...)
CallDistance ==
    /\ pc = "idle"
    /\ \E a \in Shapes, b \in Shapes, pb \in Grid, qa \in {Zero, One}, qb \in Turns :
          /\ shapeA' = a
          /\ shapeB' = b
          /\ xfA' = NewTransform(ZeroPt, qa)
          /\ xfB' = NewTransform(pb, qb)
    /\ op' = "Query"
    /\ simplex' = ZeroSimplex
    /\ pc' = "gjk"
    /\ UNCHANGED <<exit, distSq, queryVars, toiVars>>

\* Simplex.GJK up to its loop.
GJKBegin ==
    /\ pc = "gjk"
    /\ simplex' = GJKSeed(simplex, shapeA, xfA, shapeB, xfB)
    /\ exit' = ""
    /\ pc' = "gjk_loop"
    /\ UNCHANGED <<op, shapeA, shapeB, xfA, xfB, distSq, queryVars, toiVars>>

\* One iteration of GJK's loop.
GJKStep ==
    /\ pc = "gjk_loop"
    /\ \E it \in {GJKIteration(simplex, shapeA, xfA, shapeB, xfB)} :
           /\ simplex' = it.s
           /\ exit' = it.exit
           /\ pc' = IF it.exit = "" THEN "gjk_loop" ELSE "gjk_done"
    /\ UNCHANGED <<op, shapeA, shapeB, xfA, xfB, distSq, queryVars, toiVars>>

\* Distance after GJK: simplex.ClosestPoint().Length(), kept as its square.
DistanceReturn ==
    /\ pc = "gjk_done"
    /\ op = "Query"
    /\ distSq' = LengthSquared(ClosestPoint(simplex))
    /\ pc' = "collide"
    /\ UNCHANGED <<op, shapeA, shapeB, xfA, xfB, simplex, exit, queryVars, toiVars>>

\* The host calls Collide(a, xfa, b, xfb) on the same shapes and transforms.
CallCollide ==
    /\ pc = "collide"
    /\ collision' = Collide(shapeA, xfA, shapeB, xfB)
    /\ pc' = IF collision'.kind = "irrational" THEN "irrational" ELSE "collide_swapped"
    /\ UNCHANGED <<op, shapeA, shapeB, xfA, xfB, simplex, exit, distSq, swapped,
                   placedVars, shapeVars, toiVars>>

\* The host calls Collide(b, xfb, a, xfa): the arguments swapped.
CallCollideSwapped ==
    /\ pc = "collide_swapped"
    /\ swapped' = Collide(shapeB, xfB, shapeA, xfA)
    /\ pc' = IF swapped'.kind = "irrational" THEN "irrational" ELSE "done"
    /\ UNCHANGED <<op, shapeA, shapeB, xfA, xfB, simplex, exit, distSq, collision,
                   placedVars, shapeVars, toiVars>>

\* The host calls simplex.WitnessPoints() on the simplex GJK left.
CallWitnessPoints ==
    /\ pc = "done"
    /\ witness' = WitnessPoints(simplex)
    /\ pc' = "witnessed"
    /\ UNCHANGED <<op, shapeA, shapeB, xfA, xfB, simplex, exit, distSq, collision,
                   swapped, motion, movedDistSq, movedCollision, shapeVars, toiVars>>

\* The host calls Distance and Collide again on the same shapes, with the
\* rigid motion g applied to both transforms.
CallMoved ==
    /\ pc = "witnessed"
    /\ \E g \in Motions :
          /\ motion' = g
          /\ movedDistSq' = Distance(shapeA, Moved(g, xfA), shapeB, Moved(g, xfB))
          /\ movedCollision' = Collide(shapeA, Moved(g, xfA), shapeB, Moved(g, xfB))
    /\ pc' = IF movedCollision'.kind = "irrational" THEN "irrational" ELSE "moved"
    /\ UNCHANGED <<op, shapeA, shapeB, xfA, xfB, simplex, exit, distSq, collision,
                   swapped, witness, shapeVars, toiVars>>

\* The host calls TimeOfImpact(&Simplex{}, a, sweepA, b, sweepB): the head
\* of the function, up to its outer loop.
CallTOI ==
    /\ pc = "idle"
    /\ \E a \in Shapes, b \in Shapes, start \in Starts, move \in Moves,
          drift \in Drifts, qb \in {Zero, One} :
          /\ shapeA' = a
          /\ shapeB' = b
          /\ sweepA' = Sweep(ZeroPt, drift, Zero, Zero)
          /\ sweepB' = Sweep(start, Add(Add(start, move), drift), qb, qb)
    /\ op' = "TOI"
    /\ simplex' = ZeroSimplex
    /\ cache' = ZeroCache
    /\ toi' = TOILocals
    /\ pc' = "toi_outer"
    /\ UNCHANGED <<xfA, xfB, exit, distSq, fcn, result, queryVars>>

\* The outer loop's test, and its body up to the call of GJK.
TOIOuter ==
    /\ pc = "toi_outer"
    /\ IF toi.i >= MaxOuter
       THEN /\ pc' = "toi_done"
            /\ result' = toi.t1
            /\ toi' = [toi EXCEPT !.exit = "exhausted"]
            /\ UNCHANGED <<xfA, xfB, simplex>>
       ELSE /\ xfA' = GetTransform(sweepA, toi.t1)
            /\ xfB' = GetTransform(sweepB, toi.t1)
            /\ simplex' = ReadCache(simplex, cache, shapeA, xfA', shapeB, xfB')
            /\ pc' = "gjk"
            /\ UNCHANGED <<result, toi>>
    /\ UNCHANGED <<op, shapeA, shapeB, exit, distSq, sweepA, sweepB, cache, fcn,
                   queryVars>>

\* The outer loop's body from WriteCache to the inner loop.  The distance
\* is compared through its square.
TOIDistance ==
    /\ pc = "gjk_done"
    /\ op = "TOI"
    /\ cache' = WriteCache(simplex, cache)
    /\ distSq' = LengthSquared(ClosestPoint(simplex))
    /\ IF distSq' = Zero
       THEN /\ pc' = "toi_done"
            /\ result' = Zero
            /\ toi' = [toi EXCEPT !.exit = "overlap"]
            /\ UNCHANGED fcn
       ELSE IF LengthLt(distSq', RAdd(target, tolerance))
       THEN /\ pc' = "toi_done"
            /\ result' = toi.t1
            /\ toi' = [toi EXCEPT !.exit = "victory"]
            /\ UNCHANGED fcn
       ELSE /\ fcn' = separationInit(shapeA, shapeB, cache', xfA, xfB)
            /\ pc' = IF fcn'.rational THEN "toi_inner" ELSE "irrational"
            /\ toi' = [toi EXCEPT !.t2 = One, !.inner = 0]
            /\ UNCHANGED result
    /\ UNCHANGED <<op, shapeA, shapeB, xfA, xfB, simplex, exit, sweepA, sweepB,
                   queryVars>>

\* The inner loop's test, and its body up to the root finder.
TOIInner ==
    /\ pc = "toi_inner"
    /\ IF toi.inner >= MaxInner
       THEN /\ pc' = "toi_outer"
            /\ toi' = [toi EXCEPT !.i = @ + 1]
            /\ UNCHANGED result
       ELSE \E m \in {MinSeparation(fcn, shapeA, shapeB, GetTransform(sweepA, toi.t2),
                                    GetTransform(sweepB, toi.t2))} :
            IF RGt(m.separation, RAdd(target, tolerance))
            THEN /\ pc' = "toi_done"
                 /\ result' = One
                 /\ toi' = [toi EXCEPT !.exit = "separated", !.s2 = m.separation,
                                       !.indexA = m.indexA, !.indexB = m.indexB]
            ELSE IF RGt(m.separation, RSub(target, tolerance))
            THEN /\ pc' = "toi_outer"
                 /\ toi' = [toi EXCEPT !.t1 = toi.t2, !.i = @ + 1, !.s2 = m.separation,
                                       !.indexA = m.indexA, !.indexB = m.indexB]
                 /\ UNCHANGED result
            ELSE \E s \in {Evaluate(fcn, shapeA, shapeB,
                                    m.indexA, GetTransform(sweepA, toi.t1),
                                    m.indexB, GetTransform(sweepB, toi.t1))} :
                 /\ toi' = [toi EXCEPT !.s1 = s, !.s2 = m.separation,
                                       !.indexA = m.indexA, !.indexB = m.indexB,
                                       !.a1 = toi.t1, !.a2 = toi.t2, !.j = 0,
                                       !.exit = IF RLt(s, RSub(target, tolerance))
                                                  THEN "failure"
                                                ELSE IF RLe(s, RAdd(target, tolerance))
                                                  THEN "touching"
                                                ELSE ""]
                 /\ pc' = IF toi'.exit = "" THEN "toi_root" ELSE "toi_done"
                 /\ result' = IF toi'.exit = "" THEN result ELSE toi.t1
    /\ UNCHANGED <<op, shapeA, shapeB, xfA, xfB, simplex, exit, distSq, sweepA,
                   sweepB, cache, fcn, queryVars>>

\* The root finder's test and body.
TOIRoot ==
    /\ pc = "toi_root"
    /\ IF toi.j >= MaxRoot
       THEN /\ pc' = "toi_inner"
            /\ toi' = [toi EXCEPT !.inner = @ + 1]
       ELSE \E t \in {RootEstimate(toi.j, toi.a1, toi.a2, toi.s1, toi.s2)} :
            \E s \in {Evaluate(fcn, shapeA, shapeB,
                               toi.indexA, GetTransform(sweepA, t),
                               toi.indexB, GetTransform(sweepB, t))} :
            IF RLt(RAbs(RSub(s, target)), tolerance)
            THEN /\ pc' = "toi_inner"
                 /\ toi' = [toi EXCEPT !.t2 = t, !.inner = @ + 1]
            ELSE /\ pc' = "toi_root"
                 /\ toi' = IF RGt(s, target)
                           THEN [toi EXCEPT !.a1 = t, !.s1 = s, !.j = @ + 1]
                           ELSE [toi EXCEPT !.a2 = t, !.s2 = s, !.j = @ + 1]
    /\ UNCHANGED <<op, shapeA, shapeB, xfA, xfB, simplex, exit, distSq, sweepA,
                   sweepB, cache, fcn, result, queryVars>>

\* The host calls NewPolygon(points...) with 3 or 4 corners of a convex
\* polygon in Rectangle's order.
CallNewPolygon ==
    /\ pc = "idle"
    /\ \E points \in [1..3 -> Corners] \cup [1..4 -> NearCorners] :
          /\ TurnsLikeRectangle(points)
          /\ given' = points
          /\ IF RationalEdges(points)
             THEN polygon' = NewPolygon(points) /\ pc' = "polygon"
             ELSE polygon' = polygon /\ pc' = "irrational"
    /\ op' = "NewPolygon"
    /\ UNCHANGED <<shapeA, shapeB, xfA, xfB, simplex, exit, distSq, collision,
                   swapped, placedVars, toiVars>>

\* The host calls Rectangle(center, extents).
CallRectangle ==
    /\ pc = "idle"
    /\ \E center \in Centers, extents \in Extents :
          /\ polygon' = Rectangle(center, extents)
          /\ given' = polygon'.Points
    /\ op' = "Rectangle"
    /\ pc' = "polygon"
    /\ UNCHANGED <<shapeA, shapeB, xfA, xfB, simplex, exit, distSq, collision,
                   swapped, placedVars, toiVars>>

NextQuery ==
    \/ CallDistance
    \/ GJKBegin
    \/ GJKStep
    \/ DistanceReturn
    \/ CallCollide
    \/ CallCollideSwapped
    \/ CallWitnessPoints
    \/ CallMoved

NextShape ==
    \/ CallNewPolygon
    \/ CallRectangle

NextTOI ==
    \/ CallTOI
    \/ TOIOuter
    \/ GJKBegin
    \/ GJKStep
    \/ TOIDistance
    \/ TOIInner
    \/ TOIRoot

Next ==
    \/ CallDistance
    \/ CallTOI
    \/ CallNewPolygon
    \/ CallRectangle
    \/ GJKBegin
    \/ GJKStep
    \/ DistanceReturn
    \/ CallCollide
    \/ CallCollideSwapped
    \/ CallWitnessPoints
    \/ CallMoved
    \/ TOIOuter
    \/ TOIDistance
    \/ TOIInner
    \/ TOIRoot

\* The Distance and Collide calls alone.
SpecQuery == Init /\ [][NextQuery]_vars
\* The construction of polygons alone.
SpecShape == Init /\ [][NextShape]_vars
\* The TimeOfImpact calls alone.
SpecTOI == Init /\ [][NextTOI]_vars
\* Every call.
Spec == Init /\ [][Next]_vars

\* The steps of a call that is under way: everything but the host's choice
\* to start one.
Step ==
    \/ GJKBegin
    \/ GJKStep
    \/ DistanceReturn
    \/ CallCollide
    \/ CallCollideSwapped
    \/ TOIOuter
    \/ TOIDistance
    \/ TOIInner
    \/ TOIRoot
\* The positions from which a call has a step to take.
Running == {"gjk", "gjk_loop", "gjk_done", "collide", "collide_swapped",
            "toi_outer", "toi_inner", "toi_root"}
\* Every call, with the goroutine that runs it scheduled until it returns.
\* A call is one sequential goroutine that never blocks, so its next step is
\* always taken: this is weak fairness of Step, WF_vars(Step), written out
\* as  []<>~ENABLED <<Step>>_vars \/ []<><<Step>>_vars  with the enabling
\* condition given by the position of the call.
FairSpec == Spec /\ ([]<>(pc \notin Running) \/ []<><<Step>>_vars)


(***************************************************************************)
(* Reference geometry, computed from the shapes alone.  A shape under a    *)
(* transform is a convex region of the plane: a polygon is the hull of its *)
(* transformed points, a circle the disc of its Radius about its           *)
(* transformed Center; the core of a circle is its centre.                 *)
(***************************************************************************)
\* Whether a < b, for finite a and b, computed without products.
Less(a, b) == Below(a[1], a[2], b[1], b[2])
\* The least number of a finite non-empty set.
MinOf(S) == CHOOSE m \in S : \A x \in S : ~Less(x, m)

\* The core of a shape in the world: the corners of a polygon in order, the
\* centre of a circle.
Core(shape, xf) ==
    IF shape.kind = "circle" THEN <<XfMul(xf, shape.Center)>>
    ELSE [i \in 1..Len(shape.Points) |-> XfMul(xf, shape.Points[i])]

\* The corner after corner i, around the polygon.
After(ps, i) == ps[(i % Len(ps)) + 1]
\* Edge i of ps, as a vector.
EdgeOf(ps, i) == Sub(After(ps, i), ps[i])
\* Positive when p is strictly beyond edge i of the counter-clockwise
\* polygon ps, zero when p is on the line of the edge.
Beyond(ps, i, p) == Cross(Sub(p, ps[i]), EdgeOf(ps, i))

\* The point of the segment from v to v + e that is closest to p, where
\* t = (p - v).e and l = e.e.
ClosestAlong(v, e, t, l) ==
    IF RLe(t, Zero) THEN v
    ELSE IF RGe(t, l) THEN Add(v, e)
    ELSE Add(v, Mul(e, RDiv(t, l)))
ClosestOnEdge(ps, i, p) ==
    ClosestAlong(ps[i], EdgeOf(ps, i), Dot(Sub(p, ps[i]), EdgeOf(ps, i)),
                 LengthSquared(EdgeOf(ps, i)))
\* The square of the distance from v + d to the segment from v to v + e,
\* where t = d.e and l = e.e.
DistSqAlong(d, e, t, l) ==
    IF RLe(t, Zero) THEN LengthSquared(d)
    ELSE IF RGe(t, l) THEN LengthSquared(Sub(d, e))
    ELSE RDiv(RMul(Cross(d, e), Cross(d, e)), l)
\* The square of the distance from p to edge i of ps.
EdgeDistSq(ps, i, p) ==
    DistSqAlong(Sub(p, ps[i]), EdgeOf(ps, i), Dot(Sub(p, ps[i]), EdgeOf(ps, i)),
                LengthSquared(EdgeOf(ps, i)))

\* Whether an edge of the polygon ps has all of qs strictly beyond it.
Separates(ps, qs) ==
    /\ Len(ps) > 1
    /\ \E i \in 1..Len(ps) : \A j \in 1..Len(qs) : RGt(Beyond(ps, i, qs[j]), Zero)
\* Whether an edge of the polygon ps has none of qs on its inner side.
Parts(ps, qs) ==
    /\ Len(ps) > 1
    /\ \E i \in 1..Len(ps) : \A j \in 1..Len(qs) : RGe(Beyond(ps, i, qs[j]), Zero)

\* Whether the two cores share a point.
Touch(ps, qs) ==
    IF Len(ps) = 1 /\ Len(qs) = 1 THEN ps[1] = qs[1]
    ELSE ~(Separates(ps, qs) \/ Separates(qs, ps))

\* The least squared distance over all corner-edge pairs of the two cores.
BruteForce(ps, qs) ==
    MinOf({EdgeDistSq(qs, j, ps[i]) : i \in 1..Len(ps), j \in 1..Len(qs)}
          \cup {EdgeDistSq(ps, i, qs[j]) : i \in 1..Len(ps), j \in 1..Len(qs)})

\* The square of the distance between two cores.
CoreDistSq(ps, qs) == IF Touch(ps, qs) THEN Zero ELSE BruteForce(ps, qs)

\* The square of the sum of the radii.
ReachSq(a, b) == RMul(RAdd(a.Radius, b.Radius), RAdd(a.Radius, b.Radius))

\* Whether the regions of a and b share interior points.
InteriorsMeet(a, xfa, b, xfb) ==
    IF a.kind = "polygon" /\ b.kind = "polygon"
    THEN ~(Parts(Core(a, xfa), Core(b, xfb)) \/ Parts(Core(b, xfb), Core(a, xfa)))
    ELSE Less(CoreDistSq(Core(a, xfa), Core(b, xfb)), ReachSq(a, b))

\* Whether the regions of a and b are at a distance > 0.
Disjoint(a, xfa, b, xfb) ==
    Less(ReachSq(a, b), CoreDistSq(Core(a, xfa), Core(b, xfb)))

\* The transforms of a TimeOfImpact call at t = 0.
StartA == GetTransform(sweepA, Zero)
StartB == GetTransform(sweepB, Zero)
\* The squared distance of the cores at t = 0.
StartDistSq == CoreDistSq(Core(shapeA, StartA), Core(shapeB, StartB))

(***************************************************************************)
(* TimeOfImpact.                                                           *)
(***************************************************************************)
\* C1: whatever exit TimeOfImpact takes (the overlap return, return 1.0, a
\* break out of the outer loop, the exhaustion of the 100 iterations), the
\* value t it returns satisfies 0 <= t <= 1.
C1_ResultInUnitInterval ==
    pc = "toi_done" => RLe(Zero, result) /\ RLe(result, One)
\* A call that returned a time strictly between 0 and 1.
C1_Witness ==
    pc = "toi_done" /\ RLt(Zero, result) /\ RLt(result, One)

\* C2: if the regions of the two shapes share interior points at t = 0,
\* TimeOfImpact returns 0.
C2_OverlapReturnsZero ==
    (pc = "toi_done" /\ InteriorsMeet(shapeA, StartA, shapeB, StartB))
        => result = Zero

\* Both sweeps stationary, or both sweeps equal.
C3_NoMotion ==
    \/ sweepA.P0 = sweepA.P1 /\ sweepA.R0 = sweepA.R1
       /\ sweepB.P0 = sweepB.P1 /\ sweepB.R0 = sweepB.R1
    \/ sweepA = sweepB
\* Both shapes keep their angle and move by the same displacement.
C3_NoRelativeMotion ==
    /\ sweepA.R0 = sweepA.R1
    /\ sweepB.R0 = sweepB.R1
    /\ Sub(sweepA.P1, sweepA.P0) = Sub(sweepB.P1, sweepB.P0)
Returned == {"done", "toi_done", "irrational"}
\* An iteration of GJK's loop leaves the loop or changes the simplex.
GJKAdvances ==
    pc = "gjk_loop" =>
        \E it \in {GJKIteration(simplex, shapeA, xfA, shapeB, xfB)} :
            it.exit # "" \/ it.s # simplex
\* C4: GJK's loop, started on an empty simplex or on one that ReadCache
\* restored, always reaches one of its exits: no iteration repeats the
\* simplex it started from, and the loop is always left; so every Distance
\* and every TimeOfImpact call returns.
C4_GJKTerminates ==
    /\ []GJKAdvances
    /\ (pc = "gjk_loop") ~> (pc = "gjk_done")
    /\ (pc \in Running) ~> (pc \in Returned)
\* GJK has left its loop in a TimeOfImpact call whose simplex ReadCache
\* restored from the cache of an earlier iteration.
C4_Witness ==
    pc = "gjk_done" /\ op = "TOI" /\ toi.i > 0 /\ exit # ""

(***************************************************************************)
(* Distance and Collide.                                                   *)
(***************************************************************************)
\* Distance has returned.
Measured == op = "Query" /\ pc \in {"collide", "collide_swapped", "done"}
\* Collide(a, xfa, b, xfb) has returned.
Collided == pc \in {"collide_swapped", "done"}
BothPolygons == shapeA.kind = "polygon" /\ shapeB.kind = "polygon"

\* C5: for two convex polygons Distance is non-negative, is 0 exactly when
\* the transformed polygons share a point, and is otherwise their least
\* distance, compared as a square with the least over all corner-edge
\* pairs.
C5_PolygonDistance ==
    (Measured /\ BothPolygons) =>
        /\ RGe(distSq, Zero)
        /\ (distSq = Zero) <=> Touch(Core(shapeA, xfA), Core(shapeB, xfB))
        /\ ~Touch(Core(shapeA, xfA), Core(shapeB, xfB)) =>
               distSq = BruteForce(Core(shapeA, xfA), Core(shapeB, xfB))
\* Distance has returned for two polygons that are apart, closest along an
\* edge of the simplex.
C5_Witness ==
    Measured /\ BothPolygons /\ distSq # Zero /\ simplex.count = 2

\* C6: whenever Collide returns a contact Distance returns 0, and whenever
\* Distance returns a value > 0 Collide returns none.
C6_ContactIffNoDistance ==
    Collided =>
        /\ collision.kind = "contact" => distSq = Zero
        /\ RGt(distSq, Zero) => collision.kind = "none"

\* C7: Collide(a, xfa, b, xfb) is none exactly when Collide(b, xfb, a, xfa)
\* is none, and two contacts have equal depths and opposite normals.
C7_SwapSymmetric ==
    pc = "done" =>
        /\ (collision.kind = "none") <=> (swapped.kind = "none")
        /\ (collision.kind = "contact" /\ swapped.kind = "contact") =>
               /\ collision.Depth = swapped.Depth
               /\ swapped.Normal = Neg(collision.Normal)

\* C8: the Normal of every Collision that Collide returns has length 1.
C8_UnitNormal ==
    (Collided /\ collision.kind = "contact") =>
        LengthSquared(collision.Normal) = One

\* The outward normal of edge i of ps, not normalised.
OutwardOf(ps, i) == CrossPS(EdgeOf(ps, i), One)
\* Whether p is outside the polygon ps.
OutsideOf(ps, p) == \E i \in 1..Len(ps) : RGt(Beyond(ps, i, p), Zero)
\* The edges of ps that p lies on.
EdgesUnder(ps, p) ==
    {i \in 1..Len(ps) : ~OutsideOf(ps, p) /\ Beyond(ps, i, p) = Zero}
\* The point of the polygon ps closest to a point p outside it.
ClosestOf(ps, p) ==
    CHOOSE q \in {ClosestOnEdge(ps, i, p) : i \in 1..Len(ps)} :
        \A i \in 1..Len(ps) : ~Less(EdgeDistSq(ps, i, p), LengthSquared(Sub(p, q)))
\* Whether n points from the polygon ps toward the centre c: along c - q
\* for c outside ps and q the point of ps closest to c, and out of the edge
\* of ps that c lies on.
Toward(n, ps, c) ==
    /\ OutsideOf(ps, c) => RGt(Dot(n, Sub(c, ClosestOf(ps, c))), Zero)
    /\ \A i \in EdgesUnder(ps, c) : RGt(Dot(n, OutwardOf(ps, i)), Zero)
\* The outward world normal of the face findMaxSeparation picks on a.
ReferenceNormal(a, xfa, b, xfb) ==
    RotMul(xfa.Rotation, At(a.Normals, findMaxSeparation(a, xfa, b, xfb).index))

\* C9: the Normal of every Collision that Collide(a, xfa, b, xfb) returns
\* is directed from a toward b: along cB - cA for two circles with distinct
\* centres; from the polygon toward the centre of the circle for a polygon
\* and a circle, and from the centre toward the polygon for a circle and a
\* polygon; for two polygons, out of the reference face of a or into the
\* reference face of b.
C9_NormalFromAToB ==
    (Collided /\ collision.kind = "contact") =>
        CASE shapeA.kind = "circle" /\ shapeB.kind = "circle" ->
                 Core(shapeA, xfA) # Core(shapeB, xfB) =>
                     RGt(Dot(collision.Normal,
                             Sub(Core(shapeB, xfB)[1], Core(shapeA, xfA)[1])), Zero)
          [] shapeA.kind = "polygon" /\ shapeB.kind = "circle" ->
                 Toward(collision.Normal, Core(shapeA, xfA), Core(shapeB, xfB)[1])
          [] shapeA.kind = "circle" /\ shapeB.kind = "polygon" ->
                 Toward(Neg(collision.Normal), Core(shapeB, xfB), Core(shapeA, xfA)[1])
          [] BothPolygons ->
                 \/ RGt(Dot(collision.Normal,
                            ReferenceNormal(shapeA, xfA, shapeB, xfB)), Zero)
                 \/ RLt(Dot(collision.Normal,
                            ReferenceNormal(shapeB, xfB, shapeA, xfA)), Zero)

\* C10: the Depth of every Collision that Collide returns is >= 0.
C10_DepthNotNegative ==
    (Collided /\ collision.kind = "contact") => RGe(collision.Depth, Zero)

(***************************************************************************)
(* Rigid motions.                                                          *)
(***************************************************************************)
\* C11: for every rigid motion g of the model (quarter turns about the
\* origin followed by a translation), Distance(a, g*xfa, b, g*xfb) equals
\* Distance(a, xfa, b, xfb), and Collide returns none in both placements or
\* a contact of the same Depth in both.
C11_RigidMotionInvariant ==
    pc = "moved" =>
        /\ movedDistSq = distSq
        /\ (movedCollision.kind = "none") <=> (collision.kind = "none")
        /\ (movedCollision.kind = "contact" /\ collision.kind = "contact") =>
               movedCollision.Depth = collision.Depth

(***************************************************************************)
(* The time of impact of two squares.                                      *)
(***************************************************************************)
\* Two unit squares, a at rest at the origin and not turned, b not turned
\* and moving along the x axis toward a from the right, from a gap > 0 to
\* an overlap.
HeadOn ==
    /\ shapeA = UnitSquare /\ shapeB = UnitSquare
    /\ sweepA = Sweep(ZeroPt, ZeroPt, Zero, Zero)
    /\ sweepB.R0 = Zero /\ sweepB.R1 = Zero
    /\ sweepB.P0[2] = Zero /\ sweepB.P1[2] = Zero
    /\ RGt(sweepB.P0[1], One) /\ RLt(sweepB.P1[1], One)
\* The gap between the two squares at time t.
GapAt(t) ==
    RSub(RAdd(sweepB.P0[1], RMul(t, RSub(sweepB.P1[1], sweepB.P0[1]))), One)
\* The time t* at which the squares first touch.
TouchTime == RDiv(RSub(sweepB.P0[1], One), RSub(sweepB.P0[1], sweepB.P1[1]))

\* C12, as stated: for two unit squares meeting head-on, TimeOfImpact
\* returns a time within 1/10000 of the time t* of first touch.
C12_ReturnsTouchTime ==
    (pc = "toi_done" /\ HeadOn) =>
        RLe(RAbs(RSub(result, TouchTime)), <<1, 10000>>)
\* C12, as the code has it: TimeOfImpact returns 0 when the squares start
\* less than target + tolerance = 9/800 apart, and otherwise a time at
\* which their gap is within tolerance = 1/800 of target = 1/100.
C12_ReturnsTargetTime ==
    (pc = "toi_done" /\ HeadOn) =>
        IF RLt(GapAt(Zero), <<9, 800>>) THEN result = Zero
        ELSE RLe(RAbs(RSub(GapAt(result), <<1, 100>>)), <<1, 800>>)
\* The call with b moving from (3, 0) to (0, 0) has returned 199/300.
C12_Witness ==
    /\ pc = "toi_done" /\ HeadOn
    /\ sweepB.P0 = <<R(3, 1), Zero>> /\ sweepB.P1 = ZeroPt
    /\ result = R(199, 300)

(***************************************************************************)
(* Witness points.                                                         *)
(***************************************************************************)
\* Whether the world point p belongs to the core ps.
OnCore(ps, p) == IF Len(ps) = 1 THEN p = ps[1] ELSE ~OutsideOf(ps, p)

\* C13: after GJK, WitnessPoints() returns (wA, wB) with wA a point of a
\* and wB a point of b in world space and wB - wA = ClosestPoint(); for
\* count 1 they are the a and b of vertex 0, for count 2 the u-weighted
\* sums of the a and of the b of the two vertices; and every vertex of the
\* simplex has p = b - a.
C13_WitnessPointsRealize ==
    pc = "witnessed" =>
        /\ Sub(witness[2], witness[1]) = ClosestPoint(simplex)
        /\ OnCore(Core(shapeA, xfA), witness[1])
        /\ OnCore(Core(shapeB, xfB), witness[2])
        /\ simplex.count = 1 => witness = <<simplex.v[0].a, simplex.v[0].b>>
        /\ simplex.count = 2 =>
               witness = <<Add(Mul(simplex.v[0].a, simplex.v[0].u),
                               Mul(simplex.v[1].a, simplex.v[1].u)),
                           Add(Mul(simplex.v[0].b, simplex.v[0].u),
                               Mul(simplex.v[1].b, simplex.v[1].u))>>
        /\ \A i \in 0..(simplex.count - 1) :
               simplex.v[i].p = Sub(simplex.v[i].b, simplex.v[i].a)

(***************************************************************************)
(* Polygons.                                                               *)
(***************************************************************************)
\* The sum of the points ps[i..Len(ps)].
RECURSIVE SumFrom(_, _)
SumFrom(ps, i) == IF i > Len(ps) THEN ZeroPt ELSE Add(ps[i], SumFrom(ps, i + 1))
\* The centroid of the corners ps.
Centroid(ps) == Div(SumFrom(ps, 1), R(Len(ps), 1))

\* C14: for a convex polygon of at least 3 corners given in Rectangle's
\* order, NewPolygon yields as many Normals as Points, and every Normals[i]
\* has length 1, is perpendicular to the edge from Points[i] to the next
\* point, and points away from the centroid.
C14_OutwardUnitNormals ==
    pc = "polygon" =>
        /\ polygon.Points = given
        /\ Len(polygon.Normals) = Len(polygon.Points)
        /\ \A i \in 1..Len(polygon.Points) :
               /\ LengthSquared(polygon.Normals[i]) = One
               /\ Dot(polygon.Normals[i], EdgeOf(polygon.Points, i)) = Zero
               /\ RGt(Dot(polygon.Normals[i],
                          Sub(polygon.Points[i], Centroid(polygon.Points))), Zero)
\* NewPolygon has returned a triangle with a normal along neither axis.
C14_Witness ==
    /\ pc = "polygon" /\ op = "NewPolygon"
    /\ Len(polygon.Points) = 3
    /\ \E i \in 1..3 : polygon.Normals[i][1] # Zero /\ polygon.Normals[i][2] # Zero

(***************************************************************************)
(* The simplex.                                                            *)
(***************************************************************************)
\* The vertex regions of the triangle s.v[0], s.v[1], s.v[2] (A, B, C) that
\* hold the origin, by the edge coordinates of evolveTriangle.
InRegionA(s) ==
    /\ RLe(Dot(Neg(s.v[0].p), Sub(s.v[1].p, s.v[0].p)), Zero)
    /\ RLe(Dot(s.v[0].p, Sub(s.v[0].p, s.v[2].p)), Zero)
InRegionB(s) ==
    /\ RLe(Dot(s.v[1].p, Sub(s.v[1].p, s.v[0].p)), Zero)
    /\ RLe(Dot(Neg(s.v[1].p), Sub(s.v[2].p, s.v[1].p)), Zero)
InRegionC(s) ==
    /\ RLe(Dot(s.v[2].p, Sub(s.v[2].p, s.v[1].p)), Zero)
    /\ RLe(Dot(Neg(s.v[2].p), Sub(s.v[0].p, s.v[2].p)), Zero)
\* The index of the vertex whose region holds the origin, the regions taken
\* in the order A, B, C.
RegionVertex(s) == IF InRegionA(s) THEN 0 ELSE IF InRegionB(s) THEN 1 ELSE 2

\* C16: when GJK's loop evolves a simplex of 3 vertices whose origin lies in
\* a vertex region, the simplex is reduced to that vertex alone, with every
\* field of the vertex as it was (the weight u included): the loop goes on
\* from v[0] equal to that vertex, and ends its iteration with count 1 at
\* an exit or with count 2 after it has added a support point.
C16_VertexRegionKeepsVertex ==
    [][(pc = "gjk_loop" /\ simplex.count = 3
          /\ (InRegionA(simplex) \/ InRegionB(simplex) \/ InRegionC(simplex)))
       => /\ simplex'.v[0] = simplex.v[RegionVertex(simplex)]
          /\ simplex'.count = (IF exit' = "" THEN 2 ELSE 1)]_vars

\* The first count vertices of the simplex s carry pairwise distinct pairs
\* (indexA, indexB).
DistinctPairs(s) ==
    \A i, j \in 0..(s.count - 1) :
        i # j => <<s.v[i].indexA, s.v[i].indexB>> # <<s.v[j].indexA, s.v[j].indexB>>
\* At every iteration of GJK's loop and at its exit the simplex has 1 to 3
\* vertices with pairwise distinct pairs; and a separation function that
\* init built on a face from a cache of 2 vertices has a face edge between
\* two different vertices.
WellFormed ==
    /\ pc \in {"gjk_loop", "gjk_done"} =>
           simplex.count \in 1..3 /\ DistinctPairs(simplex)
    /\ (pc = "toi_inner" /\ cache.count = 2) =>
           /\ fcn.kind = "axisFaceB" => cache.indexB[0] # cache.indexB[1]
           /\ fcn.kind = "axisFaceA" => cache.indexA[0] # cache.indexA[1]
\* An iteration after which the loop goes on has appended its support point
\* at index 1 or 2.
AppendsInside ==
    (pc = "gjk_loop" /\ pc' = "gjk_loop") =>
        /\ simplex'.count \in {2, 3}
        /\ simplex'.v[simplex'.count - 1].u = One
        /\ ~IsDuplicate(simplex, simplex'.v[simplex'.count - 1].indexA,
                        simplex'.v[simplex'.count - 1].indexB)
\* C17: the simplex stays well formed through GJK, from an empty simplex and
\* from one ReadCache restored: 1 <= count <= 3 at every iteration and at
\* the exit, the support point is appended at index 1 or 2 only, the first
\* count vertices have pairwise distinct index pairs, and so the face edge
\* of separation.init joins two different vertices.
C17_SimplexWellFormed == []WellFormed /\ [][AppendsInside]_vars
\* TimeOfImpact has built a separation function on a face of b from a
\* cache of 2 vertices, in an outer iteration after the first.
C17_Witness ==
    /\ pc = "toi_inner" /\ cache.count = 2 /\ fcn.kind = "axisFaceB" /\ toi.i > 0

(***************************************************************************)
(* The bracket of TimeOfImpact.                                            *)
(***************************************************************************)
\* The times of a running TimeOfImpact call are in order: 0 <= t1 <= 1;
\* inside the inner loop t1 <= t2 <= 1; inside the root finder
\* t1 <= a1 <= a2 <= 1 and s1 > target > s2, so that s2 - s1 is not 0.
Bracketed ==
    /\ op = "TOI" => RLe(Zero, toi.t1) /\ RLe(toi.t1, One)
    /\ pc \in {"toi_inner", "toi_root"} => RLe(toi.t1, toi.t2) /\ RLe(toi.t2, One)
    /\ pc = "toi_root" =>
           /\ RLe(toi.t1, toi.a1) /\ RLe(toi.a1, toi.a2) /\ RLe(toi.a2, One)
           /\ RGt(toi.s1, target) /\ RLt(toi.s2, target)
           /\ RSub(toi.s2, toi.s1) # Zero
\* A step of the root finder evaluates a time t of the bracket [a1, a2]: it
\* either accepts it as t2, or replaces a1 and s1 by t and s when s > target,
\* or replaces a2 and s2 when not.
RootStep ==
    (pc = "toi_root" /\ toi.j < MaxRoot) =>
        IF pc' = "toi_root"
        THEN \/ /\ toi'.a2 = toi.a2 /\ toi'.s2 = toi.s2
                /\ RGt(toi'.s1, target)
                /\ RLe(toi.a1, toi'.a1) /\ RLe(toi'.a1, toi.a2)
             \/ /\ toi'.a1 = toi.a1 /\ toi'.s1 = toi.s1
                /\ ~RGt(toi'.s2, target)
                /\ RLe(toi.a1, toi'.a2) /\ RLe(toi'.a2, toi.a2)
        ELSE RLe(toi.a1, toi'.t2) /\ RLe(toi'.t2, toi.a2)
\* t1 never decreases.
Advances == RLe(toi.t1, toi'.t1)
\* C18: TimeOfImpact keeps its times bracketed: t1 never decreases and
\* 0 <= t1 <= t2 <= 1; in the root finder t1 <= a1 <= t <= a2 <= 1 for every
\* time t it evaluates, s1 > target > s2 at every step, and a1 is replaced
\* only when s > target, a2 only otherwise.
C18_TimesBracketed == []Bracketed /\ [][RootStep /\ Advances]_vars
\* The root finder has accepted the estimate of a secant step, strictly
\* inside the bracket, as t2.
C18_Witness ==
    /\ pc = "toi_inner" /\ toi.inner = 1 /\ toi.j = 1
    /\ RLt(toi.t1, toi.t2) /\ RLt(toi.t2, One)

=============================================================================
